---- MODULE Spec2Model ----
(***************************************************************************)
(* photos1: the generation-swapping double buffer (double_buffer.rs), the  *)
(* single-consumer task mailbox (TaskChannel in lib.rs) and the            *)
(* application that drives them (run_app in lib.rs, Photos in main.rs).    *)
(*                                                                         *)
(* An Arc<Mutex<Model>> is a generation: an index into the heap functions  *)
(* strong (Arc strong count), cell (the Model inside the Mutex) and mtx    *)
(* (the thread holding the Mutex).  A Weak is the index alone.             *)
(*                                                                         *)
(* Three specifications share the state:                                   *)
(*   SpecBuf   a BufBuf whose owner loops over swap and lock while         *)
(*             NWriters threads call set_next on clones of its handle;     *)
(*   SpecMail  a TaskChannel of an App whose update suspends, returns Ok   *)
(*             or returns Err;                                             *)
(*   Spec      run_app::<Photos>: the event loop, the consumer loop and    *)
(*             the tasks Photos::update spawns.                            *)
(* A step of a thread runs from one operation other threads can observe    *)
(* (a lock, a take, a store, an upgrade, a send, a recv) to the next.      *)
(***************************************************************************)
EXTENDS Integers, Sequences, FiniteSets, TLC

\* ---- bounds ----
MaxGen == 4          \* SpecBuf: Arc allocations, the initial one included
NWriters == 2        \* SpecBuf: threads calling set_next
MaxSend == 3         \* SpecMail: messages pushed over a run
MaxMsg == 2          \* Spec: messages pushed by init and render over a run
MaxEntries == 1      \* Spec: entries of a folder handed to OpenSet
MaxHandles == 3      \* SpecHandle: BufBufWrite handles made by new_write and clone

\* ---- program constants ----
QueueCap == 1        \* tokio::sync::mpsc::channel(1)
ListLen == 2         \* the paths of the "Gallery" button's PhotoSet::List
NCols == 4           \* let ncols = 4: thumbs per gallery row

\* ---- values ----
None == 0            \* Option::None for an Option<Arc<..>>, a local not holding an Arc
Max(a, b) == IF a > b THEN a ELSE b
Gens == 1..Max(MaxGen, Max(MaxSend, MaxMsg) + 1)
Writers == 1..NWriters
Free == 0            \* a Mutex nobody holds
RenderT == -1        \* the thread that owns the BufBuf (calls lock, swap and send)
Consumer == 0        \* the set_next caller that is the mailbox's consumer loop
Buffers == {1, 2}    \* the BufBuf of the other variables and a second one
Handles == 1..MaxHandles
Workers == 1..Max(MaxSend, MaxMsg)  \* the task spawn_err! starts for message k is worker k

\* struct Model { screen }: data is the PhotoData of a Photo screen, thumbs
\* the Gallery's Vec<Thumb>; src names the message the Model was built for
NoModel == [screen |-> "Unalloc", src |-> 0, data |-> "-", thumbs |-> <<>>]
\* Photos::init: Model { screen : Screen::Empty }
InitModel == [screen |-> "Empty", src |-> 0, data |-> "-", thumbs |-> <<>>]
\* Model { screen : Screen::Photo(PhotoScreen::new(photo)) }, Photo::new: PhotoData::CPU
PhotoModel(k) == [screen |-> "Photo", src |-> k, data |-> "CPU", thumbs |-> <<>>]
\* Model { screen : Screen::Gallery(Gallery { thumbs : Vec::new() }) }
GalleryModel(k) == [screen |-> "Gallery", src |-> k, data |-> "-", thumbs |-> <<>>]
\* the Models a SpecBuf writer w passes to set_next
WriterModels(w) == {PhotoModel(w), GalleryModel(w)}
\* Thumb::new: the i-th thumb of worker w
Thumb(w, i) == [id |-> 10 * w + i, data |-> "CPU"]

\* enum Msg { Open{path}, OpenSet(PhotoSet) }; id numbers the messages in
\* the order they were pushed, n is the number of entries of the PhotoSet
NoMsg == [id |-> 0, kind |-> "None", set |-> "-", n |-> 0, path |-> 0]
OpenMsg(k, p) == [id |-> k, kind |-> "Open", set |-> "-", n |-> 0, path |-> p]
OpenSetMsg(k, s, n) == [id |-> k, kind |-> "OpenSet", set |-> s, n |-> n, path |-> 0]

VARIABLES
    current,    \* BufBuf.current : Arc<Mutex<T>>
    next,       \* BufBuf.next    : Option<Arc<Mutex<T>>> (the pending slot)
    strong,     \* Arc strong count of every generation
    cell,       \* the T inside every generation's Mutex
    mtx,        \* holder of every generation's Mutex
    nGen,       \* number of generations allocated so far
    rpc,        \* position of the thread that owns the BufBuf
    old,        \* swap: the local `old` after mem::swap
    seen,       \* what the guard returned by lock() reads
    snArc,      \* set_next: the local `next` of each caller, between Arc::new and the store
    weak,       \* the Weak each set_next caller got back last
    dtor,       \* <<c, g>> while set_next caller c, inside the store and holding the
                \* slot's lock, runs the destructor of generation g; <<>> otherwise
    \* history of the calls made, kept for the properties
    passed,     \* the v every generation was created from by set_next
    pubLog,     \* generations in the order they were stored in the pending slot
    pubAtTake,  \* Len(pubLog) at the last take that found a generation
    hookLog,    \* every hook invocation: the generations f was given as (old, new)
    takeLog,    \* the generations the takes found in the pending slot, in order
    discarded,  \* generations a set_next found in the pending slot and replaced
    \* run_app, TaskChannel and Photos
    msgs,       \* run_app: the Vec<Msg> init and render push to
    nMsg,       \* messages pushed so far
    queue,      \* the mpsc channel's buffer
    cpc,        \* position of the consumer loop
    cmsg,       \* the message update was called with
    cres,       \* what the last update returned: "Ok", "Err", "-" while none has
    wpc,        \* position of every spawned worker
    wset,       \* the PhotoSet kind every worker iterates
    wleft,      \* entries every worker has not loaded yet
    wweak,      \* the Weak moved into every worker
    model,      \* every worker's local `model`: the upgraded Arc
    wres,       \* how every worker ended
    wrote,      \* thumbs every worker has pushed
    \* history of the mailbox
    sentLog,    \* ids of the messages send returned for, in order
    updLog,     \* ids of the messages update was invoked with, in order
    running,    \* ids of the update futures started and not completed
    errLog,     \* ids handle_error was called for, in order
    waited,     \* id of the message whose blocked send the last recv made room for
    \* a second BufBuf and the write handles of both
    buf2,       \* the second BufBuf: its current and its pending slot
    hnd,        \* every BufBufWrite: the buffer whose slot its `next` points to
                \* (slot) and the buffer new_write was called on to get it or
                \* the handle it was cloned from (orig, history)
    hlast       \* history, per buffer: the generation set_next stored last through
                \* a handle of the buffer (pend), the one its last swap took (cur)

bufVars == <<current, next, strong, cell, mtx, nGen>>
swapVars == <<rpc, old, seen>>
pubVars == <<snArc, weak, dtor>>
histVars == <<passed, pubLog, pubAtTake, hookLog, takeLog, discarded>>
swapHist == <<pubAtTake, hookLog, takeLog>>
mailVars == <<msgs, nMsg, queue, cpc, cmsg, cres>>
workVars == <<wpc, wset, wleft, wweak, model, wres, wrote>>
mailHist == <<sentLog, updLog, running, errLog, waited>>
handleVars == <<buf2, hnd, hlast>>
vars == <<bufVars, swapVars, pubVars, histVars, mailVars, workVars, mailHist, handleVars>>

\* Arc drop: one strong reference less
Release(s, g) == IF g = None THEN s ELSE [s EXCEPT ![g] = @ - 1]

\* ---- BufBuf::new ----
BufBufNew ==
    /\ current = 1
    /\ next = None
    /\ strong = [g \in Gens |-> IF g = 1 THEN 1 ELSE 0]
    /\ cell = [g \in Gens |-> IF g = 1 THEN InitModel ELSE NoModel]
    /\ mtx = [g \in Gens |-> Free]
    /\ nGen = 1
    /\ old = None
    /\ seen = NoModel
    /\ passed = [g \in Gens |-> NoModel]
    /\ pubLog = <<>>
    /\ pubAtTake = 0
    /\ hookLog = <<>>
    /\ takeLog = <<>>
    /\ discarded = {}

\* ---- BufBufWrite::set_next ----
\* let next = Arc::new(Mutex::new(v)); let ret = Arc::downgrade(&next);
set_next_new(c, v) ==
    /\ snArc[c] = None
    /\ IF dtor = <<>> THEN TRUE ELSE dtor[1] # c
    /\ nGen + 1 \in Gens
    /\ nGen' = nGen + 1
    /\ strong' = [strong EXCEPT ![nGen + 1] = 1]
    /\ cell' = [cell EXCEPT ![nGen + 1] = v]
    /\ passed' = [passed EXCEPT ![nGen + 1] = v]
    /\ snArc' = [snArc EXCEPT ![c] = nGen + 1]
    /\ UNCHANGED <<current, next, mtx, weak, dtor, pubLog, discarded, swapHist>>

\* a set_next that leaves an occupied pending slot alone and drops its own Arc
set_next_store_keep(c) ==
    /\ snArc[c] # None
    /\ dtor = <<>>
    /\ dtor' = <<>>
    /\ next' = IF next = None THEN snArc[c] ELSE next
    /\ strong' = IF next = None THEN strong ELSE Release(strong, snArc[c])
    /\ discarded' = IF next = None THEN discarded ELSE discarded \cup {snArc[c]}
    /\ pubLog' = Append(pubLog, snArc[c])
    /\ weak' = [weak EXCEPT ![c] = snArc[c]]
    /\ snArc' = [snArc EXCEPT ![c] = None]
    /\ UNCHANGED <<current, cell, mtx, nGen, passed, swapHist>>

\* a set_next that forgets the Arc the slot held instead of dropping it
set_next_store_leak(c) ==
    /\ snArc[c] # None
    /\ dtor = <<>>
    /\ dtor' = <<>>
    /\ next' = snArc[c]
    /\ strong' = strong
    /\ discarded' = IF next = None THEN discarded ELSE discarded \cup {next}
    /\ pubLog' = Append(pubLog, snArc[c])
    /\ weak' = [weak EXCEPT ![c] = snArc[c]]
    /\ snArc' = [snArc EXCEPT ![c] = None]
    /\ UNCHANGED <<current, cell, mtx, nGen, passed, swapHist>>

\* *self.next.lock().unwrap() = Some(next);
\* blocks while another thread holds the slot's lock.  The assignment drops
\* the Option the slot held; when that was the last strong reference of a
\* generation, the destructor of its Model runs here, before the guard of
\* the slot is dropped at the end of the statement
set_next_store(c) ==
    /\ snArc[c] # None
    /\ dtor = <<>>
    /\ dtor' = IF next # None /\ strong[next] = 1 THEN <<c, next>> ELSE <<>>
    /\ next' = snArc[c]
    /\ strong' = Release(strong, next)
    /\ discarded' = IF next = None THEN discarded ELSE discarded \cup {next}
    /\ pubLog' = Append(pubLog, snArc[c])
    /\ weak' = [weak EXCEPT ![c] = snArc[c]]
    /\ snArc' = [snArc EXCEPT ![c] = None]
    /\ UNCHANGED <<current, cell, mtx, nGen, passed, swapHist>>

\* the destructor has run, the guard of the slot is dropped; ret
set_next_ret(c) ==
    /\ dtor # <<>>
    /\ dtor[1] = c
    /\ dtor' = <<>>
    /\ UNCHANGED <<bufVars, snArc, weak, histVars>>

\* ---- BufBuf::lock ----
\* a lock that returns a guard without waiting for the Mutex to be free
lock_nowait(from, to) ==
    /\ rpc = from
    /\ mtx' = [mtx EXCEPT ![current] = RenderT]
    /\ seen' = cell[current]
    /\ rpc' = to
    /\ UNCHANGED <<current, next, strong, cell, nGen, old>>

\* self.current.lock().unwrap(): blocks while another thread holds the Mutex
lock(from, to) ==
    /\ rpc = from
    /\ mtx[current] = Free
    /\ mtx' = [mtx EXCEPT ![current] = RenderT]
    /\ seen' = cell[current]
    /\ rpc' = to
    /\ UNCHANGED <<current, next, strong, cell, nGen, old>>

\* the MutexGuard returned by lock() is dropped
unlock(from, to) ==
    /\ rpc = from
    /\ mtx' = [mtx EXCEPT ![current] = Free]
    /\ seen' = NoModel
    /\ rpc' = to
    /\ UNCHANGED <<current, next, strong, cell, nGen, old>>

\* ---- BufBuf::swap ----
\* a take that clones the Arc in the slot and leaves it there
swap_take_peek ==
    /\ rpc = "swap"
    /\ dtor = <<>>
    /\ next' = next
    /\ strong' = IF next = None THEN strong ELSE [strong EXCEPT ![next] = @ + 1]
    /\ takeLog' = IF next = None THEN takeLog ELSE Append(takeLog, next)
    /\ pubAtTake' = IF next = None THEN pubAtTake ELSE Len(pubLog)
    /\ current' = IF next = None THEN current ELSE next
    /\ old' = IF next = None THEN None ELSE current
    /\ rpc' = IF next = None THEN "idle" ELSE "lock_old"
    /\ UNCHANGED <<cell, mtx, nGen, seen, pubVars, passed, pubLog, hookLog, discarded>>

\* a swap that exchanges current with the slot: the outgoing generation is
\* left pending
swap_take_flip ==
    /\ rpc = "swap"
    /\ dtor = <<>>
    /\ next' = IF next = None THEN None ELSE current
    /\ strong' = IF next = None THEN strong ELSE [strong EXCEPT ![current] = @ + 1]
    /\ takeLog' = IF next = None THEN takeLog ELSE Append(takeLog, next)
    /\ pubAtTake' = IF next = None THEN pubAtTake ELSE Len(pubLog)
    /\ current' = IF next = None THEN current ELSE next
    /\ old' = IF next = None THEN None ELSE current
    /\ rpc' = IF next = None THEN "idle" ELSE "lock_old"
    /\ UNCHANGED <<cell, mtx, nGen, seen, pubVars, passed, pubLog, hookLog, discarded>>

\* a swap that returns without looking at the slot
swap_take_skip ==
    /\ rpc = "swap"
    /\ dtor = <<>>
    /\ rpc' = "idle"
    /\ UNCHANGED <<current, next, old, takeLog, pubAtTake>>
    /\ UNCHANGED <<strong, cell, mtx, nGen, seen, pubVars, passed, pubLog, hookLog, discarded>>

\* let new_opt = self.next.lock().unwrap().take();
\* None => {}: swap returns
\* Some(mut new) => std::mem::swap(&mut new, &mut self.current); let old = new;
swap_take ==
    /\ rpc = "swap"
    /\ dtor = <<>>
    /\ next' = None
    /\ takeLog' = IF next = None THEN takeLog ELSE Append(takeLog, next)
    /\ pubAtTake' = IF next = None THEN pubAtTake ELSE Len(pubLog)
    /\ current' = IF next = None THEN current ELSE next
    /\ old' = IF next = None THEN None ELSE current
    /\ rpc' = IF next = None THEN "idle" ELSE "lock_old"
    /\ UNCHANGED <<strong, cell, mtx, nGen, seen, pubVars, passed, pubLog, hookLog, discarded>>

\* a swap that drops `old` as soon as it has locked it, before f is called
swap_lock_old_release ==
    /\ rpc = "lock_old"
    /\ mtx[old] = Free
    /\ mtx' = [mtx EXCEPT ![old] = RenderT]
    /\ strong' = Release(strong, old)
    /\ rpc' = "lock_cur"
    /\ UNCHANGED <<current, next, cell, nGen, old, seen, pubVars, histVars>>

\* old.lock().unwrap(): the first argument of f is evaluated first
swap_lock_old ==
    /\ rpc = "lock_old"
    /\ mtx[old] = Free
    /\ mtx' = [mtx EXCEPT ![old] = RenderT]
    /\ rpc' = "lock_cur"
    /\ UNCHANGED <<current, next, strong, cell, nGen, old, seen, pubVars, histVars>>

\* a swap that calls f on the new current generation without locking it
swap_lock_cur_skip ==
    /\ rpc = "lock_cur"
    /\ mtx' = mtx
    /\ rpc' = "hook"
    /\ UNCHANGED <<current, next, strong, cell, nGen, old, seen, pubVars, histVars>>

\* self.current.lock().unwrap(): f is about to be called with both guards
swap_lock_cur ==
    /\ rpc = "lock_cur"
    /\ mtx[current] = Free
    /\ mtx' = [mtx EXCEPT ![current] = RenderT]
    /\ rpc' = "hook"
    /\ UNCHANGED <<current, next, strong, cell, nGen, old, seen, pubVars, histVars>>

\* f called with its two arguments exchanged
swap_hook_flip ==
    /\ rpc = "hook"
    /\ hookLog' = Append(hookLog, [old |-> current, new |-> old])
    /\ mtx' = [mtx EXCEPT ![old] = Free, ![current] = Free]
    /\ strong' = Release(strong, old)
    /\ old' = None
    /\ rpc' = "idle"
    /\ UNCHANGED <<current, next, cell, nGen, seen, pubVars>>
    /\ UNCHANGED <<passed, pubLog, pubAtTake, takeLog, discarded>>

\* f called, and called again
swap_hook_twice ==
    /\ rpc = "hook"
    /\ hookLog' = hookLog \o <<[old |-> old, new |-> current], [old |-> old, new |-> current]>>
    /\ mtx' = [mtx EXCEPT ![old] = Free, ![current] = Free]
    /\ strong' = Release(strong, old)
    /\ old' = None
    /\ rpc' = "idle"
    /\ UNCHANGED <<current, next, cell, nGen, seen, pubVars>>
    /\ UNCHANGED <<passed, pubLog, pubAtTake, takeLog, discarded>>

\* a swap that keeps `old` alive past its return
swap_hook_forget ==
    /\ rpc = "hook"
    /\ hookLog' = Append(hookLog, [old |-> old, new |-> current])
    /\ mtx' = [mtx EXCEPT ![old] = Free, ![current] = Free]
    /\ strong' = strong
    /\ old' = None
    /\ rpc' = "idle"
    /\ UNCHANGED <<current, next, cell, nGen, seen, pubVars>>
    /\ UNCHANGED <<passed, pubLog, pubAtTake, takeLog, discarded>>

\* a swap that empties the slot again when the hook has returned
swap_hook_clear ==
    /\ rpc = "hook"
    /\ hookLog' = Append(hookLog, [old |-> old, new |-> current])
    /\ mtx' = [mtx EXCEPT ![old] = Free, ![current] = Free]
    /\ strong' = Release(Release(strong, old), next)
    /\ next' = None
    /\ old' = None
    /\ rpc' = "idle"
    /\ UNCHANGED <<current, cell, nGen, seen, pubVars>>
    /\ UNCHANGED <<passed, pubLog, pubAtTake, takeLog, discarded>>

\* f(&mut old.lock().unwrap(), &mut self.current.lock().unwrap()); the hook
\* (App::swap of Photos and of TestApp) changes neither Model.  At the end
\* of the statement both guards are dropped, at the end of the arm `old`
\* is, and swap returns.
swap_hook ==
    /\ rpc = "hook"
    /\ hookLog' = Append(hookLog, [old |-> old, new |-> current])
    /\ mtx' = [mtx EXCEPT ![old] = Free, ![current] = Free]
    /\ strong' = Release(strong, old)
    /\ old' = None
    /\ rpc' = "idle"
    /\ UNCHANGED <<current, next, cell, nGen, seen, pubVars>>
    /\ UNCHANGED <<passed, pubLog, pubAtTake, takeLog, discarded>>

swap == swap_take \/ swap_lock_old \/ swap_lock_cur \/ swap_hook

\* ---- BufBuf::new_write, BufBufWrite::clone ----
\* a BufBufWrite not made yet
NoHandle == [slot |-> 0, orig |-> 0, from |-> 0]

\* the pending slot and the current generation of buffer b
Slot(b) == IF b = 1 THEN next ELSE buf2.next
Cur(b) == IF b = 1 THEN current ELSE buf2.current

\* BufBufWrite{ next: Arc::clone(&self.next) } on buffer b
new_write(b, h) ==
    /\ hnd[h] = NoHandle
    /\ hnd' = [hnd EXCEPT ![h] = [slot |-> b, orig |-> b, from |-> 0]]

\* a clone wired to the pending slot of the other buffer
clone_other(h, k) ==
    /\ hnd[h] # NoHandle
    /\ hnd[k] = NoHandle
    /\ hnd' = [hnd EXCEPT ![k] = [slot |-> 3 - hnd[h].slot, orig |-> hnd[h].orig, from |-> h]]

\* BufBufWrite{ next : Arc::clone(&self.next) } on handle h
clone(h, k) ==
    /\ hnd[h] # NoHandle
    /\ hnd[k] = NoHandle
    /\ hnd' = [hnd EXCEPT ![k] = [slot |-> hnd[h].slot, orig |-> hnd[h].orig, from |-> h]]

\* set_next(v) through handle h, from Arc::new to its return: the new
\* generation goes into the slot h.next points to, what the slot held is dropped
handle_set_next(h, v) ==
    /\ hnd[h] # NoHandle
    /\ nGen + 1 \in Gens
    /\ nGen' = nGen + 1
    /\ cell' = [cell EXCEPT ![nGen + 1] = v]
    /\ strong' = [Release(strong, Slot(hnd[h].slot)) EXCEPT ![nGen + 1] = 1]
    /\ next' = IF hnd[h].slot = 1 THEN nGen + 1 ELSE next
    /\ buf2' = IF hnd[h].slot = 2 THEN [buf2 EXCEPT !.next = nGen + 1] ELSE buf2
    /\ hlast' = [hlast EXCEPT ![hnd[h].orig].pend = nGen + 1, ![hnd[h].orig].pendBy = h]
    /\ UNCHANGED <<current, mtx, hnd>>

\* swap(f) on buffer b when its slot holds a generation, from the take to
\* its return, with a hook that changes neither Model
buffer_swap(b) ==
    /\ Slot(b) # None
    /\ current' = IF b = 1 THEN next ELSE current
    /\ next' = IF b = 1 THEN None ELSE next
    /\ buf2' = IF b = 2 THEN [current |-> buf2.next, next |-> None] ELSE buf2
    /\ strong' = Release(strong, Cur(b))
    /\ hlast' = [hlast EXCEPT ![b] = [pend |-> None, pendBy |-> 0, cur |-> @.pend, curBy |-> @.pendBy]]
    /\ UNCHANGED <<cell, mtx, nGen, hnd>>

\* no second buffer and no handle
NoHandles ==
    /\ buf2 = [current |-> None, next |-> None]
    /\ hnd = [h \in Handles |-> NoHandle]
    /\ hlast = [b \in Buffers |-> [pend |-> None, pendBy |-> 0, cur |-> None, curBy |-> 0]]

\* ---- SpecBuf: the buffer under concurrent clients ----
\* no mailbox and no worker
NoMail ==
    /\ msgs = <<>>
    /\ nMsg = 0
    /\ queue = <<>>
    /\ cpc = "recv"
    /\ cmsg = NoMsg
    /\ cres = "-"
    /\ sentLog = <<>>
    /\ updLog = <<>>
    /\ running = {}
    /\ errLog = <<>>
    /\ waited = 0

NoWorker ==
    /\ wpc = [w \in Workers |-> "none"]
    /\ wset = [w \in Workers |-> "-"]
    /\ wleft = [w \in Workers |-> 0]
    /\ wweak = [w \in Workers |-> None]
    /\ model = [w \in Workers |-> None]
    /\ wres = [w \in Workers |-> "-"]
    /\ wrote = [w \in Workers |-> 0]

InitBuf ==
    /\ BufBufNew
    /\ NoHandles
    /\ NoMail
    /\ NoWorker
    /\ rpc = "swap"
    /\ snArc = [c \in Writers |-> None]
    /\ weak = [c \in Writers |-> None]
    /\ dtor = <<>>

WriterNew(w) ==
    /\ nGen < MaxGen
    /\ \E v \in WriterModels(w) : set_next_new(w, v)
    /\ UNCHANGED <<swapVars, mailVars, workVars, mailHist>>
    /\ UNCHANGED handleVars

WriterStore(w) ==
    /\ set_next_store(w)
    /\ UNCHANGED <<swapVars, mailVars, workVars, mailHist>>
    /\ UNCHANGED handleVars

WriterRet(w) ==
    /\ set_next_ret(w)
    /\ UNCHANGED <<swapVars, mailVars, workVars, mailHist>>
    /\ UNCHANGED handleVars

OwnerSwap ==
    /\ swap
    /\ UNCHANGED <<mailVars, workVars, mailHist>>
    /\ UNCHANGED handleVars

OwnerLock ==
    /\ lock("idle", "locked")
    /\ UNCHANGED <<pubVars, histVars, mailVars, workVars, mailHist>>
    /\ UNCHANGED handleVars

OwnerUnlock ==
    /\ unlock("locked", "swap")
    /\ UNCHANGED <<pubVars, histVars, mailVars, workVars, mailHist>>
    /\ UNCHANGED handleVars

NextBuf ==
    \/ \E w \in Writers : WriterNew(w)
    \/ \E w \in Writers : WriterStore(w)
    \/ \E w \in Writers : WriterRet(w)
    \/ OwnerSwap
    \/ OwnerLock
    \/ OwnerUnlock

SpecBuf == InitBuf /\ [][NextBuf]_vars

\* ---- SpecHandle: two buffers and the write handles made from them ----
\* BufBuf::new twice: generation b is the current one of buffer b
InitHandle ==
    /\ current = 1
    /\ next = None
    /\ buf2 = [current |-> 2, next |-> None]
    /\ strong = [g \in Gens |-> IF g \in Buffers THEN 1 ELSE 0]
    /\ cell = [g \in Gens |-> IF g \in Buffers THEN InitModel ELSE NoModel]
    /\ mtx = [g \in Gens |-> Free]
    /\ nGen = 2
    /\ hnd = [h \in Handles |-> NoHandle]
    /\ hlast = [b \in Buffers |-> [pend |-> None, pendBy |-> 0, cur |-> b, curBy |-> 0]]
    /\ old = None
    /\ seen = NoModel
    /\ passed = [g \in Gens |-> NoModel]
    /\ pubLog = <<>>
    /\ pubAtTake = 0
    /\ hookLog = <<>>
    /\ takeLog = <<>>
    /\ discarded = {}
    /\ NoMail
    /\ NoWorker
    /\ rpc = "idle"
    /\ snArc = [c \in {Consumer} |-> None]
    /\ weak = [c \in {Consumer} |-> None]
    /\ dtor = <<>>

HandleNew(b, h) ==
    /\ new_write(b, h)
    /\ UNCHANGED <<bufVars, buf2, hlast>>
    /\ UNCHANGED <<swapVars, pubVars, histVars, mailVars, workVars, mailHist>>

HandleClone(h, k) ==
    /\ clone(h, k)
    /\ UNCHANGED <<bufVars, buf2, hlast>>
    /\ UNCHANGED <<swapVars, pubVars, histVars, mailVars, workVars, mailHist>>

HandleSetNext(h) ==
    /\ \E v \in WriterModels(h) : handle_set_next(h, v)
    /\ UNCHANGED <<swapVars, pubVars, histVars, mailVars, workVars, mailHist>>

HandleSwap(b) ==
    /\ buffer_swap(b)
    /\ UNCHANGED <<swapVars, pubVars, histVars, mailVars, workVars, mailHist>>

NextHandle ==
    \/ \E b \in Buffers, h \in Handles : HandleNew(b, h)
    \/ \E h, k \in Handles : HandleClone(h, k)
    \/ \E h \in Handles : HandleSetNext(h)
    \/ \E b \in Buffers : HandleSwap(b)

SpecHandle == InitHandle /\ [][NextHandle]_vars

\* ---- TaskChannel::send ----
\* the Receiver was moved into the consumer task and is dropped with it:
\* when the loop has left by its break, when the runtime has dropped the
\* task, when the task has ended in a panic
ReceiverGone == cpc \in {"done", "cancelled", "panicked"}

\* a send that drops the message and returns when the Receiver is gone
send_closed_quiet ==
    /\ msgs # <<>>
    /\ ReceiverGone
    /\ rpc' = rpc
    /\ msgs' = Tail(msgs)
    /\ sentLog' = Append(sentLog, Head(msgs).id)

\* blocking_send returns Err(SendError(msg)) when the Receiver is gone,
\* whether or not the channel had room; unwrap() panics in the calling thread
send_closed ==
    /\ msgs # <<>>
    /\ ReceiverGone
    /\ rpc' = "panic"
    /\ msgs' = Tail(msgs)
    /\ sentLog' = sentLog

\* a send that overwrites the buffered message when the channel is full
send_overwrite ==
    /\ msgs # <<>>
    /\ queue' = IF Len(queue) < QueueCap THEN Append(queue, Head(msgs)) ELSE <<Head(msgs)>>
    /\ msgs' = Tail(msgs)
    /\ sentLog' = Append(sentLog, Head(msgs).id)

\* a send on a channel without a bound: the message is buffered at once
send_unbounded ==
    /\ msgs # <<>>
    /\ queue' = Append(queue, Head(msgs))
    /\ msgs' = Tail(msgs)
    /\ sentLog' = Append(sentLog, Head(msgs).id)

\* a drain that sends the message pushed last first
send_last ==
    /\ msgs # <<>>
    /\ Len(queue) < QueueCap
    /\ queue' = Append(queue, msgs[Len(msgs)])
    /\ msgs' = SubSeq(msgs, 1, Len(msgs) - 1)
    /\ sentLog' = Append(sentLog, msgs[Len(msgs)].id)

\* self.sender.blocking_send(msg).unwrap(): the calling thread is blocked
\* until the channel has room; then the message is buffered and send returns.
\* This is the Ok of blocking_send, which needs the Receiver
send ==
    /\ msgs # <<>>
    /\ ~ReceiverGone
    /\ Len(queue) < QueueCap
    /\ queue' = Append(queue, Head(msgs))
    /\ msgs' = Tail(msgs)
    /\ sentLog' = Append(sentLog, Head(msgs).id)

\* ---- TaskChannel::new: the consumer loop ----
\* a loop that starts the next update without awaiting the one in flight
recv_eager ==
    /\ queue # <<>>
    /\ cmsg' = Head(queue)
    /\ cres' = "-"
    /\ queue' = Tail(queue)
    /\ updLog' = Append(updLog, Head(queue).id)
    /\ running' = running \cup {Head(queue).id}
    /\ waited' = IF rpc = "drain" /\ msgs # <<>> /\ Len(queue) >= QueueCap
                  THEN Head(msgs).id ELSE 0

\* a loop that reads the buffered message without taking it off the channel
recv_peek ==
    /\ cpc = "recv"
    /\ queue # <<>>
    /\ cmsg' = Head(queue)
    /\ cres' = "-"
    /\ queue' = queue
    /\ updLog' = Append(updLog, Head(queue).id)
    /\ running' = running \cup {Head(queue).id}
    /\ waited' = 0

\* a loop that takes a message only while no sender is waiting for room
recv_rendezvous ==
    /\ cpc = "recv"
    /\ queue # <<>>
    /\ ~(rpc = "drain" /\ msgs # <<>>)
    /\ cmsg' = Head(queue)
    /\ cres' = "-"
    /\ queue' = Tail(queue)
    /\ updLog' = Append(updLog, Head(queue).id)
    /\ running' = running \cup {Head(queue).id}
    /\ waited' = 0

\* let msg = recv.recv().await (suspended while the channel is empty);
\* app.update(&model, msg) is called.  Taking the message frees the permit a
\* sender blocked in blocking_send is waiting for.
recv ==
    /\ cpc = "recv"
    /\ queue # <<>>
    /\ cmsg' = Head(queue)
    /\ cres' = "-"
    /\ queue' = Tail(queue)
    /\ updLog' = Append(updLog, Head(queue).id)
    /\ running' = running \cup {Head(queue).id}
    /\ waited' = IF rpc = "drain" /\ msgs # <<>> /\ Len(queue) >= QueueCap
                  THEN Head(msgs).id ELSE 0

\* a loop that drops the Err of update instead of handing it to handle_error
update_ret_swallow(err) ==
    /\ running' = running \ {cmsg.id}
    /\ errLog' = errLog
    /\ cmsg' = NoMsg
    /\ cres' = IF err THEN "Err" ELSE "Ok"
    /\ cpc' = "recv"

\* a loop that propagates the Err of update with `?` and ends
update_ret_fatal(err) ==
    /\ running' = running \ {cmsg.id}
    /\ errLog' = IF err THEN Append(errLog, cmsg.id) ELSE errLog
    /\ cmsg' = NoMsg
    /\ cres' = IF err THEN "Err" ELSE "Ok"
    /\ cpc' = IF err THEN "ended" ELSE "recv"

\* app.update(..).await completes; if let Err(err) = .. { app.handle_error(err) };
\* the loop goes round
update_ret(err) ==
    /\ running' = running \ {cmsg.id}
    /\ errLog' = IF err THEN Append(errLog, cmsg.id) ELSE errLog
    /\ cmsg' = NoMsg
    /\ cres' = IF err THEN "Err" ELSE "Ok"
    /\ cpc' = "recv"

\* ---- TaskChannel: teardown ----
\* the thread that owns the TaskChannel has dropped its first field, the only
\* Sender of the channel
SenderDropped == rpc \in {"drop_rt", "exit"}

\* the TaskChannel is dropped; its fields go in declaration order, sender first
drop_sender ==
    /\ rpc = "drain"
    /\ rpc' = "drop_rt"

\* then _rt : Runtime is dropped, which shuts the runtime down: a task that is
\* not being polled is dropped, a task that is being polled is dropped when
\* it next yields
drop_rt ==
    /\ rpc = "drop_rt"
    /\ rpc' = "exit"

\* recv.recv().await returns None (the channel is empty and its Sender
\* is gone): break
recv_none ==
    /\ cpc = "recv"
    /\ queue = <<>>
    /\ SenderDropped
    /\ cres' = "-"
    /\ cpc' = "done"

\* the runtime that was shut down drops the consumer task, suspended in
\* recv().await or in an await of update, and with it the Receiver and
\* the message update was working on
rt_cancel ==
    /\ rpc = "exit"
    /\ cpc \in {"recv", "update"}
    /\ cpc' = "cancelled"
    /\ cmsg' = NoMsg
    /\ cres' = "-"
    /\ running' = {}

\* app.update(..) or app.handle_error(..) panics: the runtime catches the
\* panic and drops the task, and with it the Receiver and the messages the
\* channel still buffers
update_panic ==
    /\ cpc = "update"
    /\ cpc' = "panicked"
    /\ queue' = <<>>
    /\ running' = running \ {cmsg.id}
    /\ cmsg' = NoMsg
    /\ cres' = "-"

\* ---- SpecMail: the mailbox of an App whose update returns Ok or Err ----
InitMail ==
    /\ BufBufNew
    /\ NoHandles
    /\ NoMail
    /\ NoWorker
    /\ rpc = "drain"
    /\ snArc = [c \in {Consumer} |-> None]
    /\ weak = [c \in {Consumer} |-> None]
    /\ dtor = <<>>

\* the sending thread gets one more message to send
MailPush ==
    /\ rpc = "drain"
    /\ nMsg < MaxSend
    /\ \E m \in {OpenMsg(nMsg + 1, 0), OpenSetMsg(nMsg + 1, "List", 0)} :
          msgs' = Append(msgs, m)
    /\ nMsg' = nMsg + 1
    /\ UNCHANGED <<bufVars, swapVars, pubVars, histVars, queue, cpc, cmsg, cres, workVars, mailHist>>
    /\ UNCHANGED handleVars

MailSend ==
    /\ rpc = "drain"
    /\ send
    /\ UNCHANGED <<bufVars, swapVars, pubVars, histVars, nMsg, cpc, cmsg, cres, workVars>>
    /\ UNCHANGED <<updLog, running, errLog, waited>>
    /\ UNCHANGED handleVars

MailRecv ==
    /\ recv
    /\ cpc' = "update"
    /\ UNCHANGED <<bufVars, swapVars, pubVars, histVars, msgs, nMsg, workVars>>
    /\ UNCHANGED <<sentLog, errLog>>
    /\ UNCHANGED handleVars

MailUpdateRet ==
    /\ cpc = "update"
    /\ \E err \in BOOLEAN : update_ret(err)
    /\ UNCHANGED <<bufVars, swapVars, pubVars, histVars, msgs, nMsg, queue, workVars>>
    /\ UNCHANGED <<sentLog, updLog, waited>>
    /\ UNCHANGED handleVars

MailDropSender ==
    /\ drop_sender
    /\ UNCHANGED <<bufVars, old, seen, pubVars, histVars, mailVars, workVars, mailHist>>
    /\ UNCHANGED handleVars

MailDropRt ==
    /\ drop_rt
    /\ UNCHANGED <<bufVars, old, seen, pubVars, histVars, mailVars, workVars, mailHist>>
    /\ UNCHANGED handleVars

MailRecvNone ==
    /\ recv_none
    /\ UNCHANGED <<bufVars, swapVars, pubVars, histVars, msgs, nMsg, queue, cmsg>>
    /\ UNCHANGED <<workVars, mailHist>>
    /\ UNCHANGED handleVars

MailCancel ==
    /\ rt_cancel
    /\ UNCHANGED <<bufVars, swapVars, pubVars, histVars, msgs, nMsg, queue, workVars>>
    /\ UNCHANGED <<sentLog, updLog, errLog, waited>>
    /\ UNCHANGED handleVars

NextMail ==
    \/ MailPush
    \/ MailSend
    \/ MailRecv
    \/ MailUpdateRet
    \/ MailDropSender
    \/ MailDropRt
    \/ MailRecvNone
    \/ MailCancel

SpecMail == InitMail /\ [][NextMail]_vars

\* ---- SpecMailPanic: the mailbox of an App whose update may also panic ----
MailUpdatePanic ==
    /\ update_panic
    /\ UNCHANGED <<bufVars, swapVars, pubVars, histVars, msgs, nMsg, workVars>>
    /\ UNCHANGED <<sentLog, updLog, errLog, waited>>
    /\ UNCHANGED handleVars

MailSendClosed ==
    /\ rpc = "drain"
    /\ send_closed
    /\ UNCHANGED <<bufVars, old, seen, pubVars, histVars, nMsg, queue, cpc, cmsg, cres, workVars>>
    /\ UNCHANGED <<updLog, running, errLog, waited>>
    /\ UNCHANGED handleVars

NextMailPanic ==
    \/ MailPush
    \/ MailSend
    \/ MailRecv
    \/ MailUpdateRet
    \/ MailUpdatePanic
    \/ MailSendClosed
    \/ MailDropSender
    \/ MailDropRt
    \/ MailRecvNone
    \/ MailCancel

SpecMailPanic == InitMail /\ [][NextMailPanic]_vars

\* the runtime polls the consumer task whenever it is ready, and the update
\* future it awaits completes
SpecMailFair == SpecMail /\ WF_vars(MailRecv) /\ WF_vars(MailUpdateRet)

\* ---- Photos::update, run by the consumer loop ----
\* recv; update is called; for Msg::OpenSet it runs up to the Arc::new of
\* set_next, for Msg::Open it is suspended in Photo::new
ConsumerRecv ==
    /\ recv
    /\ IF Head(queue).kind = "OpenSet"
       THEN /\ set_next_new(Consumer, GalleryModel(Head(queue).id))
            /\ cpc' = "store"
       ELSE /\ cpc' = "update"
            /\ UNCHANGED <<bufVars, pubVars, histVars>>
    /\ UNCHANGED <<swapVars, msgs, nMsg, workVars, sentLog, errLog>>
    /\ UNCHANGED handleVars

\* Msg::Open: let photo = Photo::new(path).await?;  an Err ends update,
\* an Ok goes on to the Arc::new of set_next
UpdateOpenLoad ==
    /\ cpc = "update"
    /\ cmsg.kind = "Open"
    /\ \/ /\ update_ret(TRUE)
          /\ UNCHANGED <<bufVars, pubVars, histVars>>
       \/ /\ set_next_new(Consumer, PhotoModel(cmsg.id))
          /\ cpc' = "store"
          /\ UNCHANGED <<cmsg, cres, running, errLog>>
    /\ UNCHANGED <<swapVars, msgs, nMsg, queue, workVars, sentLog, updLog, waited>>
    /\ UNCHANGED handleVars

\* an update that spawns the task and is left running by a consumer loop
\* that goes round without awaiting it
update_spawn_detached(g) ==
    /\ IF cmsg.kind = "OpenSet"
       THEN /\ wpc' = [wpc EXCEPT ![cmsg.id] = "load"]
            /\ wset' = [wset EXCEPT ![cmsg.id] = cmsg.set]
            /\ wleft' = [wleft EXCEPT ![cmsg.id] = cmsg.n]
            /\ wweak' = [wweak EXCEPT ![cmsg.id] = g]
            /\ wres' = [wres EXCEPT ![cmsg.id] = "running"]
       ELSE UNCHANGED <<wpc, wset, wleft, wweak, wres>>
    /\ running' = running
    /\ errLog' = errLog
    /\ cmsg' = NoMsg
    /\ cres' = "Ok"
    /\ cpc' = "recv"

\* what update does after set_next returned the Weak g: for Msg::OpenSet
\* spawn_err! with the Weak moved into the task; Ok(())
update_spawn(g) ==
    /\ IF cmsg.kind = "OpenSet"
       THEN /\ wpc' = [wpc EXCEPT ![cmsg.id] = "load"]
            /\ wset' = [wset EXCEPT ![cmsg.id] = cmsg.set]
            /\ wleft' = [wleft EXCEPT ![cmsg.id] = cmsg.n]
            /\ wweak' = [wweak EXCEPT ![cmsg.id] = g]
            /\ wres' = [wres EXCEPT ![cmsg.id] = "running"]
       ELSE UNCHANGED <<wpc, wset, wleft, wweak, wres>>
    /\ update_ret(FALSE)

\* the store of set_next; when it drops nothing that has a destructor to
\* run, set_next returns and update goes on to its end
UpdateStore ==
    /\ cpc = "store"
    /\ set_next_store(Consumer)
    /\ IF dtor' = <<>>
       THEN update_spawn(snArc[Consumer])
       ELSE /\ cpc' = "drop"
            /\ UNCHANGED <<wpc, wset, wleft, wweak, wres, cmsg, cres, running, errLog>>
    /\ UNCHANGED <<swapVars, msgs, nMsg, queue, model, wrote, sentLog, updLog, waited>>
    /\ UNCHANGED handleVars

\* the destructor of the replaced Model has run: set_next returns and
\* update goes on to its end
UpdateDropped ==
    /\ cpc = "drop"
    /\ set_next_ret(Consumer)
    /\ update_spawn(weak[Consumer])
    /\ UNCHANGED <<swapVars, msgs, nMsg, queue, model, wrote, sentLog, updLog, waited>>
    /\ UNCHANGED handleVars

\* ---- the task spawn_err! starts for Msg::OpenSet ----
\* an upgrade that hands out the generation whatever its strong count
WorkerLoadAlways(w) ==
    /\ wpc[w] = "load"
    /\ wleft[w] > 0
    /\ strong' = [strong EXCEPT ![wweak[w]] = @ + 1]
    /\ model' = [model EXCEPT ![w] = wweak[w]]
    /\ wpc' = [wpc EXCEPT ![w] = "lock"]
    /\ UNCHANGED <<wres, errLog>>
    /\ UNCHANGED <<current, next, cell, mtx, nGen, swapVars, pubVars, histVars, mailVars>>
    /\ UNCHANGED <<wset, wleft, wweak, wrote, sentLog, updLog, running, waited>>
    /\ UNCHANGED handleVars

\* a worker that upgrades the Arc in the pending slot instead of its own Weak
WorkerLoadSlot(w) ==
    /\ wpc[w] = "load"
    /\ wleft[w] > 0
    /\ LET g == IF next # None THEN next ELSE wweak[w] IN
       /\ strong[g] > 0
       /\ strong' = [strong EXCEPT ![g] = @ + 1]
       /\ model' = [model EXCEPT ![w] = g]
    /\ wpc' = [wpc EXCEPT ![w] = "lock"]
    /\ UNCHANGED <<wres, errLog>>
    /\ UNCHANGED <<current, next, cell, mtx, nGen, swapVars, pubVars, histVars, mailVars>>
    /\ UNCHANGED <<wset, wleft, wweak, wrote, sentLog, updLog, running, waited>>
    /\ UNCHANGED handleVars

\* an upgrade that fails as soon as a newer generation has been published,
\* whether or not its own generation is still the current one
WorkerLoadFlaky(w) ==
    /\ wpc[w] = "load"
    /\ \/ \* read_dir, next_entry or Thumb::new fails: handle_error
          /\ wset[w] = "Folder" \/ wleft[w] > 0
          /\ wres' = [wres EXCEPT ![w] = "err"]
          /\ errLog' = Append(errLog, w)
          /\ wpc' = [wpc EXCEPT ![w] = "done"]
          /\ UNCHANGED <<strong, model>>
       \/ \* no entry left: Ok(())
          /\ wleft[w] = 0
          /\ wres' = [wres EXCEPT ![w] = "ok"]
          /\ wpc' = [wpc EXCEPT ![w] = "done"]
          /\ UNCHANGED <<strong, model, errLog>>
       \/ \* the thumb is loaded and the upgrade fails: break, Ok(())
          /\ wleft[w] > 0
          /\ strong[wweak[w]] = 0 \/ next \notin {None, wweak[w]}
          /\ wres' = [wres EXCEPT ![w] = "stale"]
          /\ wpc' = [wpc EXCEPT ![w] = "done"]
          /\ UNCHANGED <<strong, model, errLog>>
       \/ \* the thumb is loaded and the upgrade succeeds
          /\ wleft[w] > 0
          /\ strong[wweak[w]] > 0
          /\ next \in {None, wweak[w]}
          /\ strong' = [strong EXCEPT ![wweak[w]] = @ + 1]
          /\ model' = [model EXCEPT ![w] = wweak[w]]
          /\ wpc' = [wpc EXCEPT ![w] = "lock"]
          /\ UNCHANGED <<wres, errLog>>
    /\ UNCHANGED <<current, next, cell, mtx, nGen, swapVars, pubVars, histVars, mailVars>>
    /\ UNCHANGED <<wset, wleft, wweak, wrote, sentLog, updLog, running, waited>>
    /\ UNCHANGED handleVars

\* a worker that skips the entry when the upgrade fails (`continue`) and
\* goes on to the next one
WorkerLoadContinue(w) ==
    /\ wpc[w] = "load"
    /\ \/ \* read_dir, next_entry or Thumb::new fails: handle_error
          /\ wset[w] = "Folder" \/ wleft[w] > 0
          /\ wres' = [wres EXCEPT ![w] = "err"]
          /\ errLog' = Append(errLog, w)
          /\ wpc' = [wpc EXCEPT ![w] = "done"]
          /\ UNCHANGED <<strong, model>>
       \/ \* no entry left: Ok(())
          /\ wleft[w] = 0
          /\ wres' = [wres EXCEPT ![w] = "ok"]
          /\ wpc' = [wpc EXCEPT ![w] = "done"]
          /\ UNCHANGED <<strong, model, errLog>>
       \/ \* the thumb is loaded and the upgrade fails: break, Ok(())
          /\ wleft[w] > 0
          /\ strong[wweak[w]] = 0
          /\ wres' = [wres EXCEPT ![w] = "stale"]
          /\ wpc' = wpc
          /\ UNCHANGED <<strong, model, errLog>>
       \/ \* the thumb is loaded and the upgrade succeeds
          /\ wleft[w] > 0
          /\ strong[wweak[w]] > 0
          /\ strong' = [strong EXCEPT ![wweak[w]] = @ + 1]
          /\ model' = [model EXCEPT ![w] = wweak[w]]
          /\ wpc' = [wpc EXCEPT ![w] = "lock"]
          /\ UNCHANGED <<wres, errLog>>
    /\ UNCHANGED <<current, next, cell, mtx, nGen, swapVars, pubVars, histVars, mailVars>>
    /\ UNCHANGED <<wset, wleft, wweak, wrote, sentLog, updLog, running, waited>>
    /\ UNCHANGED handleVars

\* a worker that reports an entry that fails to load and goes on with the
\* next one
WorkerLoadSkip(w) ==
    /\ wpc[w] = "load"
    /\ \/ \* read_dir, next_entry or Thumb::new fails: handle_error
          /\ wset[w] = "Folder" \/ wleft[w] > 0
          /\ wres' = [wres EXCEPT ![w] = "err"]
          /\ errLog' = Append(errLog, w)
          /\ wpc' = wpc
          /\ UNCHANGED <<strong, model>>
       \/ \* no entry left: Ok(())
          /\ wleft[w] = 0
          /\ wres' = [wres EXCEPT ![w] = "ok"]
          /\ wpc' = [wpc EXCEPT ![w] = "done"]
          /\ UNCHANGED <<strong, model, errLog>>
       \/ \* the thumb is loaded and the upgrade fails: break, Ok(())
          /\ wleft[w] > 0
          /\ strong[wweak[w]] = 0
          /\ wres' = [wres EXCEPT ![w] = "stale"]
          /\ wpc' = [wpc EXCEPT ![w] = "done"]
          /\ UNCHANGED <<strong, model, errLog>>
       \/ \* the thumb is loaded and the upgrade succeeds
          /\ wleft[w] > 0
          /\ strong[wweak[w]] > 0
          /\ strong' = [strong EXCEPT ![wweak[w]] = @ + 1]
          /\ model' = [model EXCEPT ![w] = wweak[w]]
          /\ wpc' = [wpc EXCEPT ![w] = "lock"]
          /\ UNCHANGED <<wres, errLog>>
    /\ UNCHANGED <<current, next, cell, mtx, nGen, swapVars, pubVars, histVars, mailVars>>
    /\ UNCHANGED <<wset, wleft, wweak, wrote, sentLog, updLog, running, waited>>
    /\ UNCHANGED handleVars

\* entries.next_entry().await? / for path in paths; Thumb::new(..).await?;
\* weak.upgrade() or break
WorkerLoad(w) ==
    /\ wpc[w] = "load"
    /\ \/ \* read_dir, next_entry or Thumb::new fails: handle_error
          /\ wset[w] = "Folder" \/ wleft[w] > 0
          /\ wres' = [wres EXCEPT ![w] = "err"]
          /\ errLog' = Append(errLog, w)
          /\ wpc' = [wpc EXCEPT ![w] = "done"]
          /\ UNCHANGED <<strong, model>>
       \/ \* no entry left: Ok(())
          /\ wleft[w] = 0
          /\ wres' = [wres EXCEPT ![w] = "ok"]
          /\ wpc' = [wpc EXCEPT ![w] = "done"]
          /\ UNCHANGED <<strong, model, errLog>>
       \/ \* the thumb is loaded and the upgrade fails: break, Ok(())
          /\ wleft[w] > 0
          /\ strong[wweak[w]] = 0
          /\ wres' = [wres EXCEPT ![w] = "stale"]
          /\ wpc' = [wpc EXCEPT ![w] = "done"]
          /\ UNCHANGED <<strong, model, errLog>>
       \/ \* the thumb is loaded and the upgrade succeeds
          /\ wleft[w] > 0
          /\ strong[wweak[w]] > 0
          /\ strong' = [strong EXCEPT ![wweak[w]] = @ + 1]
          /\ model' = [model EXCEPT ![w] = wweak[w]]
          /\ wpc' = [wpc EXCEPT ![w] = "lock"]
          /\ UNCHANGED <<wres, errLog>>
    /\ UNCHANGED <<current, next, cell, mtx, nGen, swapVars, pubVars, histVars, mailVars>>
    /\ UNCHANGED <<wset, wleft, wweak, wrote, sentLog, updLog, running, waited>>
    /\ UNCHANGED handleVars

\* model.lock().unwrap(): blocks while another thread holds the Mutex
WorkerLock(w) ==
    /\ wpc[w] = "lock"
    /\ mtx[model[w]] = Free
    /\ mtx' = [mtx EXCEPT ![model[w]] = w]
    /\ wpc' = [wpc EXCEPT ![w] = "push"]
    /\ UNCHANGED <<current, next, strong, cell, nGen, swapVars, pubVars, histVars, mailVars>>
    /\ UNCHANGED <<wset, wleft, wweak, model, wres, wrote, mailHist>>
    /\ UNCHANGED handleVars

\* a task that pushes its thumb into whatever generation is current
WorkerPushCurrent(w) ==
    /\ wpc[w] = "push"
    /\ cell' = [cell EXCEPT ![current].thumbs = Append(@, Thumb(w, wrote[w] + 1))]
    /\ wrote' = [wrote EXCEPT ![w] = @ + 1]
    /\ wleft' = [wleft EXCEPT ![w] = @ - 1]
    /\ wpc' = [wpc EXCEPT ![w] = "load"]
    /\ UNCHANGED wres
    /\ mtx' = [mtx EXCEPT ![model[w]] = Free]
    /\ strong' = Release(strong, model[w])
    /\ model' = [model EXCEPT ![w] = None]
    /\ UNCHANGED <<current, next, nGen, swapVars, pubVars, histVars, mailVars>>
    /\ UNCHANGED <<wset, wweak, mailHist>>
    /\ UNCHANGED handleVars

\* .screen.gallery_mut().unwrap().thumbs.push(thumb); the guard and then
\* `model` are dropped at the end of the iteration
WorkerPush(w) ==
    /\ wpc[w] = "push"
    /\ IF cell[model[w]].screen = "Gallery"
       THEN /\ cell' = [cell EXCEPT ![model[w]].thumbs =
                          Append(@, Thumb(w, wrote[w] + 1))]
            /\ wrote' = [wrote EXCEPT ![w] = @ + 1]
            /\ wleft' = [wleft EXCEPT ![w] = @ - 1]
            /\ wpc' = [wpc EXCEPT ![w] = "load"]
            /\ UNCHANGED wres
       ELSE \* unwrap on None panics and the task ends
            /\ wres' = [wres EXCEPT ![w] = "panic"]
            /\ wpc' = [wpc EXCEPT ![w] = "done"]
            /\ UNCHANGED <<cell, wrote, wleft>>
    /\ mtx' = [mtx EXCEPT ![model[w]] = Free]
    /\ strong' = Release(strong, model[w])
    /\ model' = [model EXCEPT ![w] = None]
    /\ UNCHANGED <<current, next, nGen, swapVars, pubVars, histVars, mailVars>>
    /\ UNCHANGED <<wset, wweak, mailHist>>
    /\ UNCHANGED handleVars

\* ---- Photos::render ----
\* a render that closes the screen it was given
UploadedClose(m, lo, hi) == [m EXCEPT !.screen = "Empty", !.data = "-", !.thumbs = <<>>]

\* PhotoData::get_image_id on the photo of a Photo screen and on the thumbs
\* lo+1..hi of a Gallery screen: CPU data is uploaded and becomes GPU
Uploaded(m, lo, hi) ==
    [m EXCEPT !.data = IF m.screen = "Photo" THEN "GPU" ELSE @,
              !.thumbs = [i \in DOMAIN m.thumbs |->
                            IF lo < i /\ i <= hi THEN [m.thumbs[i] EXCEPT !.data = "GPU"]
                            ELSE m.thumbs[i]]]

\* the messages one call of render can push: the "Gallery" button, the
\* "open" button of the folder dialog (on a folder of MaxEntries entries), a
\* click on one of the thumbs lo+1..hi
Pushable(m, lo, hi) ==
    {OpenSetMsg(nMsg + 1, "List", ListLen)}
    \cup {OpenSetMsg(nMsg + 1, "Folder", MaxEntries)}
    \cup {OpenMsg(nMsg + 1, m.thumbs[i].id) : i \in {j \in DOMAIN m.thumbs : lo < j /\ j <= hi}}

\* a closure that goes from the match straight to the swap
AfterEventSwap(ms) == "swap"

\* where the closure goes after the match on the event:
\* for msg in msgs.drain(..) { send }, then bufbuf.swap(..)
AfterEvent(ms) == IF ms = <<>> THEN "swap" ELSE "drain"

\* a render whose guard is kept alive past the statement, into the drain
\* and the swap
RenderKeepGuard ==
    /\ rpc = "render"
    /\ \E a \in 0..(Len(cell[current].thumbs) \div NCols) :
       \E b \in a..(Len(cell[current].thumbs) \div NCols) :
          /\ cell' = [cell EXCEPT ![current] = Uploaded(@, a * NCols, b * NCols)]
          /\ \/ UNCHANGED <<msgs, nMsg>>
             \/ /\ nMsg < MaxMsg
                /\ \E m \in Pushable(cell[current], a * NCols, b * NCols) :
                      msgs' = Append(msgs, m)
                /\ nMsg' = nMsg + 1
    /\ mtx' = mtx
    /\ seen' = seen
    /\ rpc' = AfterEvent(msgs')
    /\ UNCHANGED <<current, next, strong, nGen, old, pubVars, histVars>>
    /\ UNCHANGED <<queue, cpc, cmsg, cres, workVars, mailHist>>
    /\ UNCHANGED handleVars

\* app_ref.render(.., &mut bufbuf.lock(), &mut msgs): the rows egui shows
\* are rng.start..rng.end of the Len(thumbs) / ncols rows; the guard is
\* dropped at the end of the statement
Render ==
    /\ rpc = "render"
    /\ \E a \in 0..(Len(cell[current].thumbs) \div NCols) :
       \E b \in a..(Len(cell[current].thumbs) \div NCols) :
          /\ cell' = [cell EXCEPT ![current] = Uploaded(@, a * NCols, b * NCols)]
          /\ \/ UNCHANGED <<msgs, nMsg>>
             \/ /\ nMsg < MaxMsg
                /\ \E m \in Pushable(cell[current], a * NCols, b * NCols) :
                      msgs' = Append(msgs, m)
                /\ nMsg' = nMsg + 1
    /\ mtx' = [mtx EXCEPT ![current] = Free]
    /\ seen' = NoModel
    /\ rpc' = AfterEvent(msgs')
    /\ UNCHANGED <<current, next, strong, nGen, old, pubVars, histVars>>
    /\ UNCHANGED <<queue, cpc, cmsg, cres, workVars, mailHist>>
    /\ UNCHANGED handleVars

\* ---- run_app: the closure given to event_loop.run ----
\* RedrawRequested / Resumed: bufbuf.lock() for render
EventRedraw ==
    /\ lock("idle", "render")
    /\ UNCHANGED <<pubVars, histVars, mailVars, workVars, mailHist>>
    /\ UNCHANGED handleVars

\* any other event: nothing is rendered
EventOther ==
    /\ rpc = "idle"
    /\ rpc' = AfterEvent(msgs)
    /\ UNCHANGED <<bufVars, old, seen, pubVars, histVars, mailVars, workVars, mailHist>>
    /\ UNCHANGED handleVars

\* a WindowEvent that is_quit_event: *control_flow = ControlFlow::Exit;
\* return.  The closure returns before the drain and the swap and the
\* event loop is left; what glutin does after it is not followed
EventQuit ==
    /\ rpc = "idle"
    /\ rpc' = "quit"
    /\ UNCHANGED <<bufVars, old, seen, pubVars, histVars, mailVars, workVars, mailHist>>
    /\ UNCHANGED handleVars

\* for msg in msgs.drain(..) { task_channel.send(msg); }
DrainSend ==
    /\ rpc = "drain"
    /\ send
    /\ rpc' = AfterEvent(msgs')
    /\ UNCHANGED <<bufVars, old, seen, pubVars, histVars, nMsg, cpc, cmsg, cres, workVars>>
    /\ UNCHANGED <<updLog, running, errLog, waited>>
    /\ UNCHANGED handleVars

\* bufbuf.swap(|old, new| app.swap(..)); the closure returns
RenderSwap ==
    /\ swap
    /\ UNCHANGED <<mailVars, workVars, mailHist>>
    /\ UNCHANGED handleVars

\* ---- run_app up to event_loop.run ----
\* A::init has pushed its message, BufBuf::new(model), TaskChannel::new.
\* Photos::init pushes Msg::OpenSet(PhotoSet::Folder(..)) of a folder that is
\* empty, has MaxEntries entries or has the NCols entries of a full gallery row
Fresh ==
    /\ BufBufNew
    /\ NoHandles
    /\ NoWorker
    /\ rpc = "idle"
    /\ snArc = [c \in {Consumer} |-> None]
    /\ weak = [c \in {Consumer} |-> None]
    /\ dtor = <<>>
    /\ \E n \in {0, MaxEntries, NCols} : msgs = <<OpenSetMsg(1, "Folder", n)>>
    /\ nMsg = 1
    /\ queue = <<>>
    /\ cpc = "recv"
    /\ cmsg = NoMsg
    /\ cres = "-"
    /\ sentLog = <<>>
    /\ updLog = <<>>
    /\ running = {}
    /\ errLog = <<>>
    /\ waited = 0

Init == Fresh

Next ==
    \/ EventRedraw
    \/ EventOther
    \/ EventQuit
    \/ Render
    \/ DrainSend
    \/ RenderSwap
    \/ ConsumerRecv
    \/ UpdateOpenLoad
    \/ UpdateStore
    \/ UpdateDropped
    \/ \E w \in Workers : WorkerLoad(w)
    \/ \E w \in Workers : WorkerLock(w)
    \/ \E w \in Workers : WorkerPush(w)

Spec == Init /\ [][Next]_vars

\* ---- run_app with its threads scheduled ----
\* The consumer loop and the tasks of spawn_err! run on the worker threads of
\* the Runtime built in TaskChannel::new: the consumer loop goes on whenever
\* it can (the awaits inside update complete), and so does some task while
\* any of them can.  The closure of event_loop.run runs on the main thread,
\* which goes on when it is not blocked, and glutin keeps calling it with
\* events for as long as it has not asked to exit.
SpecFair ==
    /\ Spec
    /\ WF_vars(ConsumerRecv \/ UpdateOpenLoad \/ UpdateStore \/ UpdateDropped)
    /\ WF_vars(\E w \in Workers : WorkerLoad(w) \/ WorkerLock(w) \/ WorkerPush(w))
    /\ WF_vars(EventRedraw \/ EventOther \/ Render \/ DrainSend \/ RenderSwap)

\* ==== the claims ====
\* strong references of generation g held by the pending slot: the strong
\* count less the holders that are not the slot
SlotRefs(g) ==
    strong[g] - (IF current = g THEN 1 ELSE 0) - (IF old = g THEN 1 ELSE 0)
      - Cardinality({c \in DOMAIN snArc : snArc[c] = g})
      - Cardinality({w \in Workers : model[w] = g})
Range(s) == {s[i] : i \in DOMAIN s}
InSwap == rpc \in {"lock_old", "lock_cur", "hook"}
\* the generation the takes so far leave current, and the one before it
LastTaken == IF takeLog = <<>> THEN 1 ELSE takeLog[Len(takeLog)]
PrevTaken == IF Len(takeLog) <= 1 THEN 1 ELSE takeLog[Len(takeLog) - 1]

\* C1: last publish wins.  The take of a swap finds the generation stored
\* last and makes it current; a generation a later set_next replaced in the
\* pending slot is never taken, never current and never given to the hook;
\* the pending slot never keeps more than one generation alive.
C1_LastPublishWins ==
    /\ takeLog # <<>> => LastTaken = pubLog[pubAtTake]
    /\ current = LastTaken
    /\ \A g \in discarded :
          /\ g # current
          /\ g \notin Range(takeLog)
          /\ \A i \in DOMAIN hookLog : hookLog[i].new # g
    /\ \A g \in Gens : SlotRefs(g) = (IF next = g THEN 1 ELSE 0)
    /\ Cardinality({g \in Gens : SlotRefs(g) > 0}) <= 1

\* two generations were stored with no swap in between and the swap that
\* followed has returned
C1_Witness ==
    /\ rpc = "idle"
    /\ takeLog # <<>>
    /\ pubAtTake >= 2
    /\ pubLog[pubAtTake - 1] \in discarded
    /\ current = pubLog[pubAtTake]

\* C2: round trip.  After set_next(m) and then a swap that took it, lock()
\* reads m, and the hook was called with the generation current before the
\* swap as old and with m as new.
C2_RoundTrip ==
    (rpc = "locked" /\ takeLog # <<>>) =>
        /\ seen = passed[pubLog[pubAtTake]]
        /\ hookLog[Len(hookLog)] = [old |-> PrevTaken, new |-> pubLog[pubAtTake]]
        /\ cell[hookLog[Len(hookLog)].new] = passed[pubLog[pubAtTake]]
        /\ cell[hookLog[Len(hookLog)].old] =
              (IF PrevTaken = 1 THEN InitModel ELSE passed[PrevTaken])

\* the owner reads a Photo model that replaced a published model
C2_Witness ==
    /\ rpc = "locked"
    /\ PrevTaken # 1
    /\ seen.screen = "Photo"

\* C3: a swap call that found the slot empty called the hook zero times and
\* left current and the slot as they were; a call that found a generation
\* called the hook once and left the slot empty unless a set_next stored
\* after the take.
C3_HookPerSwap ==
    /\ [](rpc \in {"swap", "idle", "locked"} => Len(hookLog) = Len(takeLog))
    /\ [][hookLog' # hookLog =>
            /\ rpc = "hook" /\ rpc' = "idle"
            /\ Len(hookLog') = Len(hookLog) + 1]_vars
    /\ [][(rpc = "swap" /\ rpc' # "swap") => (next = None <=> rpc' = "idle")]_vars
    /\ [][(rpc = "swap" /\ rpc' = "idle") =>
            /\ next = None
            /\ UNCHANGED <<current, next, strong, cell, mtx, hookLog>>]_vars
    /\ [][(rpc = "hook" /\ rpc' = "idle") =>
            next' = (IF Len(pubLog) = pubAtTake THEN None ELSE pubLog[Len(pubLog)])]_vars

\* a swap took a generation, called the hook and returned with no store
\* in between
C3_Witness ==
    /\ rpc = "idle"
    /\ hookLog # <<>>
    /\ Len(pubLog) = pubAtTake
    /\ next = None

\* C4: swap atomicity.  The i-th hook call is for the i-th generation a take
\* found, no generation is taken or given to the hook twice, every
\* generation taken was stored by a set_next, and the model the hook gets as
\* new is, whole, the value that set_next was called with.
C4_SwapAtomicity ==
    /\ Len(takeLog) - Len(hookLog) = (IF InSwap THEN 1 ELSE 0)
    /\ \A i \in DOMAIN hookLog : hookLog[i].new = takeLog[i]
    /\ \A i, j \in DOMAIN takeLog : i # j => takeLog[i] # takeLog[j]
    /\ \A i \in DOMAIN takeLog : takeLog[i] \in Range(pubLog)
    /\ takeLog # <<>> =>
          /\ cell[current] = passed[current]
          /\ \E w \in Writers : cell[current] \in WriterModels(w)

\* the hook is about to run on a published generation while two writers
\* are inside set_next
C4_Witness ==
    /\ rpc = "hook"
    /\ current \in Range(pubLog)
    /\ \E w1, w2 \in Writers : w1 # w2 /\ snArc[w1] # None /\ snArc[w2] # None

\* ids of the messages in a sequence of messages
Ids(s) == [i \in DOMAIN s |-> s[i].id]

\* C5: message ordering.  update is invoked on the messages in the order
\* send returned for them, and an invocation starts only when the update
\* future before it has completed.
C5_MessageOrdering ==
    /\ Len(updLog) <= Len(sentLog)
    /\ updLog = SubSeq(sentLog, 1, Len(updLog))
    /\ Cardinality(running) <= 1
    /\ running = (IF cpc \in {"recv", "done", "cancelled"} THEN {} ELSE {updLog[Len(updLog)]})

\* three messages were sent and update has run to completion on each
C5_Witness ==
    /\ Len(sentLog) = 3
    /\ updLog = sentLog
    /\ running = {}

\* C6: backpressure.  The channel never buffers more than QueueCap
\* messages, and every message handed to send is in the channel or was
\* handed to update, once and in order: a send on a full channel neither
\* returns early nor drops or overwrites a message.
C6_Backpressure ==
    /\ Len(queue) <= QueueCap
    /\ sentLog = updLog \o Ids(queue)
    /\ sentLog \o Ids(msgs) = [i \in 1..nMsg |-> i]
    /\ waited # 0 => (waited \in Range(sentLog) \/ (msgs # <<>> /\ waited = msgs[1].id))

\* a send found one message buffered and the consumer inside update, and
\* returned after the consumer took the buffered message
C6_Witness ==
    /\ waited # 0
    /\ waited \in Range(sentLog)
    /\ waited \notin Range(updLog)
    /\ queue # <<>>
    /\ queue[1].id = waited
    /\ cpc = "update"

\* a worker's upgrade succeeds in this step
Upgrades(w) == model[w] = None /\ model'[w] # None

\* C7: cancellation.  Once the generation a worker published was replaced
\* in the pending slot by a later set_next, no upgrade of the worker's Weak
\* succeeds any more, and that generation is never taken by a swap, never
\* current and never given to the hook.
C7_Cancellation ==
    /\ [](\A g \in discarded :
             /\ g # current
             /\ g # old
             /\ g \notin Range(takeLog)
             /\ \A i \in DOMAIN hookLog : hookLog[i].new # g /\ hookLog[i].old # g)
    /\ [][\A w \in Workers : Upgrades(w) => model'[w] \notin discarded]_vars

\* a worker pushed a thumb into the generation it published, the generation
\* was replaced while pending, and the worker's next upgrade failed
C7_Witness ==
    \E w \in Workers :
        /\ wrote[w] >= 1
        /\ wweak[w] \in discarded
        /\ wres[w] = "stale"

\* C8: no resurrection.  A generation replaced in the pending slot and held
\* by no worker has strong count zero, and a strong count that has reached
\* zero stays zero: an upgrade that failed never succeeds later.
C8_NoResurrection ==
    /\ [](\A g \in discarded : (\A w \in Workers : model[w] # g) => strong[g] = 0)
    /\ [][\A g \in Gens : (g <= nGen /\ strong[g] = 0) => strong'[g] = 0]_vars
    /\ [][\A w \in Workers : wres[w] = "stale" => ~Upgrades(w)]_vars

\* a replaced generation is dead and the worker that published it found
\* its Weak dead
C8_Witness ==
    \E g \in discarded :
        /\ strong[g] = 0
        /\ \E w \in Workers : wweak[w] = g /\ wres[w] = "stale" /\ wleft[w] > 0

\* C9 as claimed: a worker never writes the generation that is current
C9_Original ==
    \A w \in Workers : wpc[w] = "push" => model[w] # current

\* C9: the current generation is written only under its Mutex, by the
\* render thread or by the worker that published it; a worker's write
\* targets the generation that worker published and no other, whether that
\* generation is pending, current or superseded at the time.
C9_WorkerWritesOwn ==
    /\ \A w \in Workers :
          /\ model[w] # None =>
                /\ model[w] = wweak[w]
                /\ passed[model[w]] = GalleryModel(w)
                /\ strong[model[w]] >= 1
          /\ wpc[w] = "push" => mtx[model[w]] = w
    /\ rpc \in {"render", "hook"} => mtx[current] = RenderT
    /\ \A g \in Gens : \A i \in DOMAIN cell[g].thumbs :
          cell[g].thumbs[i].id = 10 * passed[g].src + i

\* a worker holds the Mutex of the current generation, about to push
C9_Witness ==
    \E w \in Workers : wpc[w] = "push" /\ model[w] = current /\ mtx[current] = w

\* a worker's upgrade of its Weak would succeed now
CanUpgrade(w) == wpc[w] = "load" /\ wleft[w] > 0 /\ strong[wweak[w]] > 0

\* C10 as claimed: when the hook is invoked swap is the only strong holder
\* of old and no upgrade on old succeeds
C10_Original ==
    rpc = "hook" =>
        /\ strong[old] = 1
        /\ \A w \in Workers : wweak[w] = old => ~CanUpgrade(w)

\* C10: when the hook is invoked the buffer no longer refers to old, swap
\* holds old's Mutex, and the strong holders of old are swap and the workers
\* holding an upgraded reference, none of which is writing; once swap has
\* returned and no worker holds it, old is dead and every upgrade fails.
C10_OldAtHook ==
    /\ InSwap =>
          /\ old # current
          /\ old # next
          /\ strong[old] = 1 + Cardinality({w \in Workers : model[w] = old})
    /\ rpc = "hook" =>
          /\ mtx[old] = RenderT
          /\ \A w \in Workers : model[w] = old => wpc[w] = "lock"
    /\ \A i \in DOMAIN hookLog :
          LET g == hookLog[i].old IN
          strong[g] = Cardinality({w \in Workers : model[w] = g})

\* the hook is about to run while a worker holds an upgraded reference to old
C10_Witness ==
    /\ rpc = "hook"
    /\ \E w \in Workers : model[w] = old /\ strong[old] = 2

\* the step in which the update future awaited by the consumer loop completes
UpdateReturns == cmsg # NoMsg /\ cmsg' = NoMsg /\ cpc' # "cancelled"
NoDup(s) == \A i, j \in DOMAIN s : i # j => s[i] # s[j]

\* C11: errors go to the sink.  The step in which update returns Err calls
\* handle_error for that message, once, in the consumer loop; handle_error is
\* called for nothing else; the step leaves the sending thread, the messages
\* it still holds, the sends it has made and the channel as they were.
C11_ErrorsToSink ==
    /\ [](NoDup(errLog) /\ Range(errLog) \subseteq (Range(updLog) \ running))
    /\ [][UpdateReturns =>
            /\ errLog' = (IF cres' = "Err" THEN Append(errLog, cmsg.id) ELSE errLog)
            /\ UNCHANGED <<rpc, msgs, sentLog, queue>>]_vars
    /\ [][errLog' # errLog => (UpdateReturns /\ cres' = "Err")]_vars

\* update has just returned Err, handle_error got it, and the sender has
\* gone on to buffer the next message
C11_Witness ==
    /\ cres = "Err"
    /\ errLog # <<>>
    /\ errLog[Len(errLog)] = updLog[Len(updLog)]
    /\ queue # <<>>

\* C12: update errors are not fatal and not retried.  When update returns,
\* Ok or Err, the loop goes back to recv with the channel untouched; update
\* is never invoked twice for a message, and the messages after a failed
\* one are handed to update in the order they were sent.
C12_ErrorsNotFatal ==
    /\ [](NoDup(updLog) /\ updLog = SubSeq(sentLog, 1, Len(updLog)))
    /\ [](cres = "Err" => cpc = "recv")
    /\ [][UpdateReturns => (cpc' = "recv" /\ queue' = queue /\ updLog' = updLog)]_vars

\* a message sent after one whose update failed has been handled, Ok
C12_Witness ==
    /\ errLog # <<>>
    /\ cres = "Ok"
    /\ updLog[Len(updLog)] > errLog[1]

\* C13: exactly-once consumption.  No message is handed to update twice, the
\* messages send returned for are those handed to update followed by the
\* one buffered, and, the consumer being scheduled, every message send
\* returned for is handed to update unless the runtime drops the loop.
C13_ExactlyOnce ==
    /\ [](NoDup(updLog) /\ NoDup(sentLog))
    /\ [](sentLog = updLog \o Ids(queue) /\ cmsg.id \in {0} \cup Range(updLog))
    /\ \A k \in 1..MaxSend : (k \in Range(sentLog)) ~> (k \in Range(updLog) \/ cpc = "cancelled")

\* every message pushed was sent, and handed to update once
C13_Witness ==
    /\ nMsg = MaxSend
    /\ msgs = <<>>
    /\ queue = <<>>
    /\ updLog = [i \in 1..MaxSend |-> i]

\* g is an allocated generation that some strong reference keeps alive
Alive(g) == g \in 1..nGen /\ strong[g] >= 1 /\ cell[g] # NoModel

\* C14: structure of a BufBuf.  current always is a live generation; the
\* pending slot is empty or holds one live generation, which is not the
\* current one; inside swap, from the take to the return of the hook, the
\* outgoing generation is live and is neither current nor pending.
C14_Structure ==
    /\ Alive(current)
    /\ next # None => (Alive(next) /\ next # current)
    /\ InSwap => (Alive(old) /\ old # current /\ old # next)
    /\ ~InSwap => old = None
    /\ Cardinality({g \in Gens : g = current \/ g = next}) = (IF next = None THEN 1 ELSE 2)

\* between the take and the hook, with a newer generation already pending
C14_Witness ==
    /\ rpc \in {"lock_old", "lock_cur"}
    /\ old # 1
    /\ next # None

\* C15 as claimed: the lock of the pending slot is held only for the take in
\* swap and the replace in set_next, never while application code runs, the
\* destructor of a Model discarded by set_next included.  The take and a
\* replace that destroys nothing are single steps, so between steps the lock
\* is held exactly when a set_next caller is inside the destructor of the
\* Model it replaced.
C15_SlotLockScope ==
    dtor = <<>>

\* C16 as claimed: shutdown.  The consumer loop has ended only if the Sender
\* has been dropped and the channel is drained, and by then every message
\* that was enqueued has been passed to update.
C16_Shutdown ==
    cpc \in {"done", "cancelled"} =>
        /\ SenderDropped
        /\ queue = <<>>
        /\ updLog = sentLog

\* the messages the mailbox holds: those buffered in the channel and the one
\* an update call in progress is working on
InMailbox == Len(queue) + Cardinality(running)

\* C17: bounded mailbox.  In every reachable state the channel buffers at
\* most QueueCap = 1 message and at most one update call is in progress, so
\* the mailbox holds at most two messages.
C17_BoundedMailbox ==
    /\ Len(queue) <= QueueCap
    /\ Cardinality(running) <= 1
    /\ InMailbox <= QueueCap + 1
    /\ QueueCap = 1

\* the mailbox is full, two messages, and the sender holds a third
C17_Witness ==
    /\ InMailbox = 2
    /\ Len(queue) = 1
    /\ msgs # <<>>
    /\ ~SenderDropped

\* the step in which worker w finds its Weak un-upgradeable and breaks
UpgradeFails(w) == wres[w] # "stale" /\ wres'[w] = "stale"

\* C18: the Weak set_next returned upgrades for as long as its generation
\* is pending or current.  The buffer holds a strong reference to the
\* pending and to the current generation, and no worker has found the Weak
\* of the pending or of the current generation un-upgradeable, a newer
\* generation waiting in the slot or not.
C18_UpgradeWhileHeld ==
    /\ strong[current] >= 1
    /\ next # None => strong[next] >= 1
    /\ \A w \in Workers : wres[w] = "stale" => wweak[w] \notin {current, next}
    /\ \A w \in Workers :
          (wpc[w] = "load" /\ wleft[w] > 0 /\ wweak[w] \in {current, next}) => CanUpgrade(w)

\* a worker has upgraded the Weak of the generation that was swapped in,
\* while a newer generation is waiting in the slot
C18_Witness ==
    \E w \in Workers :
        /\ wpc[w] = "lock"
        /\ model[w] = current
        /\ wweak[w] = current
        /\ next \notin {None, current}
        /\ wrote[w] = 0

\* worker w is at the top of its loop and its generation has been dropped
Cancelled(w) == wpc[w] = "load" /\ strong[wweak[w]] = 0

\* C19: cooperative cancellation.  The step in which a worker finds its
\* Weak un-upgradeable ends its loop and mutates no Model, and a worker that
\* stopped so never runs again.  Once its generation has been dropped the
\* worker is not inside a unit of work (it holds no upgraded reference),
\* and the next step it takes is its last.
C19_CooperativeCancel ==
    /\ [][\A w \in Workers : UpgradeFails(w) => (wpc'[w] = "done" /\ cell' = cell)]_vars
    /\ [](\A w \in Workers : wres[w] = "stale" => (wpc[w] = "done" /\ model[w] = None))
    /\ [](\A w \in Workers : wpc[w] \in {"lock", "push"} =>
             (model[w] = wweak[w] /\ strong[wweak[w]] >= 1))
    /\ [][\A w \in Workers : (Cancelled(w) /\ wpc'[w] # wpc[w]) =>
             (wpc'[w] = "done" /\ cell' = cell /\ wrote' = wrote)]_vars
    /\ [][\A w \in Workers : Cancelled(w) => (Cancelled(w)' \/ wpc'[w] = "done")]_vars

\* a worker pushed a thumb into its generation after it was swapped in,
\* the generation was superseded by a later swap and dropped, and the
\* worker stopped at its next upgrade with entries left to load
C19_Witness ==
    \E w \in Workers :
        /\ wres[w] = "stale"
        /\ wrote[w] >= 1
        /\ wleft[w] >= 1
        /\ wweak[w] \in Range(takeLog)
        /\ wweak[w] # current

\* the step in which a set_next stores over an occupied slot
Replaces == pubLog' # pubLog /\ next # None

\* the step in which swap gives up `old`
DropsOld == old # None /\ old' = None

\* C20: generation lifecycle.  The store of a set_next that finds the slot
\* occupied releases the slot's strong reference to the generation it
\* replaces, in that step, and the buffer refers to it no more.  The
\* generation a swap supersedes as current is held by swap, as `old`, from
\* the take until the hook has returned; swap releases it in the step in
\* which the hook returns and swap ends, and from then on the buffer holds
\* no reference to it.  The buffer gives up a reference at no other point.
C20_Lifecycle ==
    /\ [][Replaces =>
            /\ strong'[next] = strong[next] - 1
            /\ next \notin {current', next', old'}
            /\ next \in discarded']_vars
    /\ [](InSwap => (old # None /\ strong[old] >= 1 /\ old \notin {current, next}))
    /\ [][DropsOld =>
            /\ rpc = "hook" /\ rpc' = "idle"
            /\ hookLog' = Append(hookLog, [old |-> old, new |-> current])
            /\ strong'[old] = strong[old] - 1]_vars
    /\ [](\A i \in DOMAIN hookLog :
             hookLog[i].old \notin {current, next, old} /\ strong[hookLog[i].old] = 0)
    /\ [](\A g \in discarded : g \notin {current, next, old})
    /\ [][\A g \in Gens : strong'[g] < strong[g] =>
             \/ Replaces /\ g = next
             \/ DropsOld /\ g = old]_vars

\* swap has returned after its hook and the generation it superseded is
\* dead, and a generation replaced while pending is dead
C20_Witness ==
    /\ rpc = "idle"
    /\ hookLog # <<>>
    /\ strong[hookLog[Len(hookLog)].old] = 0
    /\ \E g \in discarded : strong[g] = 0 /\ g > hookLog[Len(hookLog)].new

\* the tasks spawn_err! started that have not ended
Active == {w \in Workers : wpc[w] \in {"load", "lock", "push"}}

\* C21 as claimed: at most one unit of update work is running at any
\* instant, the population task an OpenSet update starts included.
C21_Original ==
    Cardinality(running) + Cardinality(Active) <= 1

\* C21: update calls are serialized, the tasks they spawn are not.  At most
\* one update call is in progress; the task of message k exists only once
\* update was called for k, it is an OpenSet message, and that call has
\* returned; the task then runs on its own.
C21_UpdateSerial ==
    /\ Cardinality(running) <= 1
    /\ running \subseteq Range(updLog)
    /\ \A w \in Workers : wpc[w] # "none" => (w \in Range(updLog) /\ w \notin running)
    /\ \A w \in Active : wres[w] = "running" /\ wweak[w] \in 2..nGen

\* the task of message i has thumbs left to load and is inside a push
\* while update is in progress for message i + 1
C21_Witness ==
    \E w \in Active :
        /\ running = {w + 1}
        /\ wpc[w] = "push"
        /\ wleft[w] >= 1

\* the callers inside set_next: between its Arc::new and its return
InSetNext == {c \in DOMAIN snArc : snArc[c] # None \/ (dtor # <<>> /\ dtor[1] = c)}

\* the message whose update published generation g
Cause(g) == passed[g].src

\* C22: publishes from update never race.  The only caller of set_next is
\* the update call in progress, so at most one set_next is in progress and
\* only while that update runs; the generations are installed in the slot
\* in the order of the messages that caused them, each message at most once.
C22_PublishSerial ==
    /\ Cardinality(InSetNext) <= 1
    /\ InSetNext # {} => (cpc \in {"store", "drop"} /\ running = {cmsg.id})
    /\ snArc[Consumer] # None => Cause(snArc[Consumer]) = cmsg.id
    /\ \A i \in DOMAIN pubLog : Cause(pubLog[i]) \in Range(updLog)
    /\ \A i, j \in DOMAIN pubLog : i < j => Cause(pubLog[i]) < Cause(pubLog[j])
    /\ \A i \in DOMAIN sentLog : sentLog[i] = i

\* the generations of two successive messages were installed one after the
\* other, the second while the first was still pending
C22_Witness ==
    /\ Len(pubLog) = 2
    /\ Cause(pubLog[1]) = 1
    /\ Cause(pubLog[2]) = 2
    /\ pubLog[1] \in discarded

\* C23: handle equivalence.  Every handle new_write made on a buffer, and
\* every clone of one, points to the pending slot of that buffer; what a
\* buffer's slot holds is what was stored last through one of its handles
\* since its last swap, what is current is what its last swap found there,
\* and no store through a handle of the other buffer shows in either.
C23_HandleEquivalence ==
    /\ \A h \in Handles : hnd[h].slot = hnd[h].orig
    /\ \A b \in Buffers : Slot(b) = hlast[b].pend /\ Cur(b) = hlast[b].cur
    /\ \A b \in Buffers : hlast[b].pendBy # 0 => hnd[hlast[b].pendBy].orig = b
    /\ \A b \in Buffers : hlast[b].curBy # 0 => hnd[hlast[b].curBy].orig = b

\* the first buffer's swap took a generation stored through a clone of its
\* handle, while the second buffer has its first generation current and a
\* generation stored through its own handle pending
C23_Witness ==
    /\ hlast[1].curBy # 0
    /\ hnd[hlast[1].curBy].from # 0
    /\ current > 2
    /\ buf2.current = 2
    /\ buf2.next # None
    /\ hnd[hlast[2].pendBy].from = 0

\* C24: the hook has exclusive access to both generations.  While the hook
\* runs, swap holds the Mutex of old and of the new current generation, which
\* are two generations; no worker is inside a push into either, a worker
\* that upgraded one of them waits for its Mutex; and the render thread
\* holds no guard from lock().
C24_HookExclusive ==
    rpc = "hook" =>
        /\ old # None /\ old # current
        /\ mtx[old] = RenderT
        /\ mtx[current] = RenderT
        /\ seen = NoModel
        /\ \A w \in Workers :
              model[w] \in {old, current} => (wpc[w] = "lock" /\ mtx[model[w]] # w)

\* the hook runs while the worker that published the new current
\* generation has upgraded its Weak and waits for the Mutex
C24_Witness ==
    /\ rpc = "hook"
    /\ \E w \in Workers : model[w] = current /\ wpc[w] = "lock" /\ wleft[w] >= 1

\* C25 as claimed: while render runs with the current generation no worker
\* append to it (upgrade, lock, push, unlock) is in progress.
C25_Original ==
    rpc = "render" => \A w \in Workers : model[w] # current

\* C25: render excludes the locked part of a worker's append.  While render
\* runs it holds the Mutex of the current generation, no worker is inside a
\* push into it, and the Model is the one render's guard was taken on: a
\* whole number of thumbs, none appended since.  A worker that has upgraded
\* the Weak of that generation waits for the Mutex.
C25_RenderExclusive ==
    /\ rpc = "render" =>
          /\ mtx[current] = RenderT
          /\ seen = cell[current]
          /\ \A w \in Workers :
                model[w] = current => (wpc[w] = "lock" /\ wrote[w] = Len(cell[current].thumbs))
    /\ \A w \in Workers :
          wpc[w] = "push" => (mtx[model[w]] = w /\ ~(rpc = "render" /\ model[w] = current))

\* render is running on a gallery that has a thumb, and the worker filling
\* that gallery has upgraded its Weak for the next thumb and waits
C25_Witness ==
    /\ rpc = "render"
    /\ Len(cell[current].thumbs) >= 1
    /\ \E w \in Workers : model[w] = current /\ wpc[w] = "lock"

\* C26: the render thread holds no generation's lock when it calls send or
\* swap.  Between events, in the drain and at the call of swap the render
\* thread holds the Mutex of no generation and no guard from lock(); inside
\* swap it holds only the guards swap itself takes for the hook.
C26_NoLockAcrossCalls ==
    /\ rpc \in {"idle", "drain", "swap", "lock_old"} =>
          (seen = NoModel /\ \A g \in Gens : mtx[g] # RenderT)
    /\ rpc = "lock_cur" =>
          (seen = NoModel /\ \A g \in Gens : mtx[g] = RenderT => g = old)
    /\ rpc = "drain" => msgs # <<>>

\* render pushed a message and returned; the drain is about to send it and
\* a worker already holds the lock render had on the current generation
C26_Witness ==
    /\ rpc = "drain"
    /\ nMsg >= 2
    /\ Len(sentLog) >= 1
    /\ \E w \in Workers : mtx[current] = w

\* C27 as claimed: every iteration of the event loop ends with its one
\* swap; the closure returns from nowhere else.
C27_Original ==
    rpc # "quit"

\* C27: the order of an iteration.  An iteration starts with the render of
\* a redraw, with the drain, with the swap when there is nothing to send,
\* or is the early return of a quit event.  After render comes the drain;
\* each step of the drain sends the message pushed first and the drain goes
\* on until the list is empty; then swap is called, once, and its return
\* ends the iteration.  The message init pushed is the first one sent, and
\* it has been sent when swap is first called.
C27_IterationOrder ==
    /\ [][rpc = "idle" =>
            rpc' \in {"idle", "render", "quit", IF msgs = <<>> THEN "swap" ELSE "drain"}]_vars
    /\ [][rpc = "render" =>
            rpc' \in {"render", IF msgs' = <<>> THEN "swap" ELSE "drain"}]_vars
    /\ [][(rpc = "drain" /\ rpc' # "drain") => (rpc' = "swap" /\ msgs' = <<>>)]_vars
    /\ [][msgs' # msgs /\ Len(msgs') < Len(msgs) =>
            /\ rpc = "drain"
            /\ msgs' = Tail(msgs)
            /\ sentLog' = Append(sentLog, Head(msgs).id)]_vars
    /\ [][rpc = "swap" => rpc' \in {"swap", "idle", "lock_old"}]_vars
    /\ [][rpc = "hook" => rpc' \in {"hook", "idle"}]_vars
    /\ [][rpc = "quit" => rpc' = "quit"]_vars
    /\ [](rpc = "drain" => msgs # <<>>)
    /\ [](rpc = "swap" \/ InSwap => msgs = <<>>)
    /\ []((rpc \in {"swap", "quit"} \/ InSwap) /\ msgs = <<>> => (sentLog # <<>> /\ sentLog[1] = 1))
    /\ [](\A i \in DOMAIN sentLog : sentLog[i] = i)
    /\ [](sentLog \o Ids(msgs) = [i \in 1..nMsg |-> i])

\* after iterations that sent init's message and one render pushed, and a
\* swap that called the hook, a quit event ended the loop
C27_Witness ==
    /\ rpc = "quit"
    /\ sentLog = <<1, 2>>
    /\ hookLog # <<>>

\* the number of times handle_error was called for id k
Reported(k) == Cardinality({i \in DOMAIN errLog : errLog[i] = k})

\* C28: a failure inside a spawned task.  handle_error has been called once
\* for a task that failed and never for a task that did not; a task that
\* failed has ended, holding no generation, with entries left unloaded; and
\* the thumbs it pushed before are all in its generation.
C28_TaskFailure ==
    \A w \in Workers :
        /\ wpc[w] # "none" => Reported(w) = (IF wres[w] = "err" THEN 1 ELSE 0)
        /\ wres[w] = "err" => (wpc[w] = "done" /\ model[w] = None)
        /\ wpc[w] # "none" =>
              /\ Len(cell[wweak[w]].thumbs) = wrote[w]
              /\ \A i \in 1..wrote[w] : cell[wweak[w]].thumbs[i].id = Thumb(w, i).id

\* a task pushed a thumb into the gallery that is now current, then failed
\* on a later entry with more entries left
C28_Witness ==
    \E w \in Workers :
        /\ wres[w] = "err"
        /\ wrote[w] >= 1
        /\ wleft[w] >= 2
        /\ wweak[w] = current
        /\ errLog = <<w>>

\* C29: no lost publish under a racing swap.  The slot holds the generation
\* stored last since the last take that found one, while the swap that took
\* is in its exchange or its hook and after it has returned; a generation
\* stored is pending, has been replaced by a later store, or was taken by a
\* swap, and the generations were taken in the order they were stored.
C29_NoLostPublish ==
    /\ next = (IF Len(pubLog) = pubAtTake THEN None ELSE pubLog[Len(pubLog)])
    /\ \A g \in Range(pubLog) : g = next \/ g \in discarded \/ g \in Range(takeLog)
    /\ next # None => (next \notin {current, old} /\ next \notin discarded /\ strong[next] >= 1)
    /\ \A i, j \in DOMAIN takeLog : \A a, b \in DOMAIN pubLog :
          (i < j /\ pubLog[a] = takeLog[i] /\ pubLog[b] = takeLog[j]) => a < b

\* the hook of a swap is running and a set_next that stored after that
\* swap's take has returned: its generation is pending
C29_Witness ==
    /\ rpc = "hook"
    /\ Len(pubLog) = pubAtTake + 1
    /\ next = pubLog[Len(pubLog)]
    /\ dtor = <<>>
    /\ \A c \in DOMAIN snArc : snArc[c] = None

\* C30: deadlock freedom.  Whenever the main thread waits (in send on a
\* full queue, in swap on the lock of the slot, in lock or in swap on the
\* Mutex of a generation) the thread that holds what it waits for can take
\* its next step, so no cycle of waiting includes the main thread; and every
\* step of the consumer loop or of a task uses up some of the work left to
\* them, so they cannot keep the main thread waiting for ever.
SendBlocked == rpc = "drain" /\ msgs # <<>> /\ Len(queue) >= QueueCap

SlotBlocked == rpc = "swap" /\ dtor # <<>>

MutexBlocked(g) ==
    /\ mtx[g] \in Workers
    /\ \/ rpc \in {"idle", "lock_cur"} /\ g = current
       \/ rpc = "lock_old" /\ g = old

ConsumerStep == ConsumerRecv \/ UpdateOpenLoad \/ UpdateStore \/ UpdateDropped

\* work left to the consumer loop with the messages buffered so far
ConsumerWork ==
    4 * Len(queue) + (CASE cpc = "update" -> 3 [] cpc = "store" -> 2
                        [] cpc = "drop" -> 1 [] OTHER -> 0)

\* work left to the task of message w
TaskWork(w) ==
    IF wpc[w] \in {"load", "lock", "push"}
    THEN 3 * wleft[w] + (CASE wpc[w] = "load" -> 3 [] wpc[w] = "lock" -> 2
                           [] OTHER -> 1)
    ELSE 0

WaitsForNoOne ==
    /\ SendBlocked => ENABLED ConsumerStep
    /\ SlotBlocked => (dtor[1] = Consumer /\ ENABLED UpdateDropped)
    /\ \A g \in Gens : MutexBlocked(g) => ENABLED WorkerPush(mtx[g])

WorkUsedUp ==
    (rpc' = rpc /\ msgs' = msgs) =>
        \/ ConsumerWork' < ConsumerWork
        \/ /\ ConsumerWork' = ConsumerWork
           /\ \A w \in Workers : TaskWork(w)' <= TaskWork(w)
           /\ \E w \in Workers : TaskWork(w)' < TaskWork(w)

Owner(t) == t.id \div 10

\* C32: worker isolation.  The thumbs of a generation are the ones the task
\* of the message it was published for has pushed so far, in the order it
\* pushed them, and a generation that was not published for an OpenSet has
\* none; two tasks that have not ended were given different generations and
\* no thumb of the earlier one is in the generation of the later one.
C32_WorkerIsolation ==
    /\ \A g \in Gens :
          /\ Len(cell[g].thumbs) =
                (IF passed[g].screen = "Gallery" THEN wrote[passed[g].src] ELSE 0)
          /\ \A i \in DOMAIN cell[g].thumbs : Owner(cell[g].thumbs[i]) = passed[g].src
    /\ \A v, w \in Active :
          v < w =>
             /\ wweak[v] # wweak[w]
             /\ \A i \in DOMAIN cell[wweak[w]].thumbs : Owner(cell[wweak[w]].thumbs[i]) # v
    /\ \A i \in DOMAIN cell[current].thumbs :
          wweak[Owner(cell[current].thumbs[i])] = current

\* the tasks of two successive OpenSet messages have both pushed a thumb
\* and neither has ended; the generation of the later one is current
C32_Witness ==
    \E v, w \in Active :
        /\ w = v + 1
        /\ wrote[v] >= 1
        /\ wrote[w] >= 1
        /\ wweak[w] = current

\* C33: the screen kind of a generation is fixed.  Every generation has the
\* screen kind of the Model it was created from; the generation a task has
\* upgraded its Weak to is a Gallery, and no task has ended in the panic of
\* gallery_mut().unwrap().
C33_ScreenKindFixed ==
    /\ cell[1].screen = "Empty"
    /\ \A g \in 2..nGen : cell[g].screen = passed[g].screen
    /\ \A w \in Workers :
          /\ model[w] # None => cell[model[w]].screen = "Gallery"
          /\ wres[w] # "panic"

\* a task is about to push into the generation that a swap has made
\* current, after it pushed a thumb earlier, while a later publish is pending
C33_Witness ==
    \E w \in Workers :
        /\ wpc[w] = "push"
        /\ model[w] = current
        /\ wrote[w] >= 1
        /\ hookLog # <<>>
        /\ next # None

\* the step in which send returns to its caller
SendReturns == sentLog' # sentLog

\* the step in which the sending thread panics
SendPanics == rpc # "panic" /\ rpc' = "panic"

\* C34: send to a mailbox whose consumer has ended.  Once the Receiver is
\* gone no send returns; a send made then panics the sending thread, with
\* the message neither buffered nor recorded as sent; and the sending thread
\* panics in no other case, so a send made while the consumer loop is alive
\* does not fail.
C34_SendToEnded ==
    /\ [][SendReturns => (~ReceiverGone /\ ~SendPanics)]_vars
    /\ [][SendPanics => (ReceiverGone /\ msgs # <<>> /\ UNCHANGED <<sentLog, queue>>)]_vars
    /\ [](rpc = "panic" => (ReceiverGone /\ queue = <<>>))

\* update panicked while a message was buffered and the sending thread was
\* waiting in send with another; the buffered message went with the Receiver
\* and the waiting send has panicked
C34_Witness ==
    /\ rpc = "panic"
    /\ cpc = "panicked"
    /\ Len(sentLog) = Len(updLog) + 1
    /\ nMsg > Len(sentLog)

\* C31: progress.  With the threads scheduled, every message send returned
\* for is handed to update, and a generation stored in the pending slot
\* becomes current or is replaced by a later set_next, unless the closure
\* has asked the event loop to exit.
C31_Progress ==
    /\ \A k \in 1..MaxMsg : (k \in Range(sentLog)) ~> (k \in Range(updLog))
    /\ \A g \in Gens : (next = g) ~> (current = g \/ g \in discarded \/ rpc = "quit")

\* every message was sent and handed to update, and the generation of the
\* last one has become current through a swap
C31_Witness ==
    /\ nMsg = MaxMsg
    /\ updLog = [i \in 1..MaxMsg |-> i]
    /\ takeLog # <<>>
    /\ passed[current].src = MaxMsg
    /\ rpc = "idle"


====
